---------------------------- MODULE Spec2Model ----------------------------
(***************************************************************************)
(* A model of unyt/dask_array.py: the unyt_dask_array class, which carries *)
(* a "sidecar" unyt_quantity next to a lazy dask array, the decorators     *)
(* that route every operation through the unit library, and the finalizer  *)
(* that turns a computed result into a unyt_array or a unyt_quantity.      *)
(*                                                                         *)
(* Floating point numbers are modelled as exact extended rationals <<n,d>> *)
(* (d > 0 in lowest terms; <<1,0>> = +inf, <<-1,0>> = -inf, <<0,0>> = nan),*)
(* so that a division such as 0.0 / 0.0 has the result numpy gives it.     *)
(* Rounding error and signed zeros are not modelled.                       *)
(***************************************************************************)
EXTENDS Integers, Sequences, FiniteSets, TLC

(* ------------------------------ bounds -------------------------------- *)

\* the number of unyt_dask_array objects the caller holds
MaxArrays == 3

\* the same, where only arrays are wrapped and the operators are applied
MaxDeep == 4

\* no numerator or denominator of the model exceeds this; a call whose
\* numbers would leave the range is not taken
MaxNum == 30000

(* ------------------------- numbers (float64) -------------------------- *)

NaN == <<0, 0>>
PInf == <<1, 0>>
NInf == <<-1, 0>>
\* a number outside the modelled range (see MaxNum); it poisons every result
OutOfRange == <<0, -1>>

Zero == <<0, 1>>
One == <<1, 1>>
Two == <<2, 1>>
Hundred == <<100, 1>>

IAbs(i) == IF i < 0 THEN -i ELSE i

RECURSIVE GCD(_, _)
GCD(a, b) == IF b = 0 THEN a ELSE GCD(b, a % b)

Sign(i) == IF i > 0 THEN 1 ELSE IF i < 0 THEN -1 ELSE 0

\* the float with value n/d, for d /= 0 or as the special value the sign of n names
Norm(n, d) ==
    IF d = 0 THEN <<Sign(n), 0>>
    ELSE LET s == IF d < 0 THEN -1 ELSE 1
             g == GCD(IAbs(n), IAbs(d))
             nn == (s * n) \div g
             dd == (s * d) \div g
         IN  IF IAbs(nn) > MaxNum \/ dd > MaxNum THEN OutOfRange ELSE <<nn, dd>>

IsOut(x) == x = OutOfRange
IsNaN(x) == x = NaN
IsInf(x) == x[2] = 0 /\ x[1] # 0
IsFinite(x) == x[2] > 0

FNeg(x) == IF IsOut(x) THEN x ELSE <<-x[1], x[2]>>

FAdd(x, y) ==
    IF IsOut(x) \/ IsOut(y) THEN OutOfRange
    ELSE IF IsNaN(x) \/ IsNaN(y) THEN NaN
    ELSE IF IsInf(x) /\ IsInf(y) THEN (IF x = y THEN x ELSE NaN)
    ELSE IF IsInf(x) THEN x
    ELSE IF IsInf(y) THEN y
    ELSE Norm(x[1] * y[2] + y[1] * x[2], x[2] * y[2])

FSub(x, y) == FAdd(x, FNeg(y))

FMul(x, y) ==
    IF IsOut(x) \/ IsOut(y) THEN OutOfRange
    ELSE IF IsNaN(x) \/ IsNaN(y) THEN NaN
    ELSE IF IsInf(x) \/ IsInf(y)
         THEN (IF x[1] = 0 \/ y[1] = 0 THEN NaN ELSE <<Sign(x[1]) * Sign(y[1]), 0>>)
    ELSE Norm(x[1] * y[1], x[2] * y[2])

\* numpy's true division of float64: x/0 is +-inf, 0/0 and inf/inf are nan
FDiv(x, y) ==
    IF IsOut(x) \/ IsOut(y) THEN OutOfRange
    ELSE IF IsNaN(x) \/ IsNaN(y) THEN NaN
    ELSE IF IsInf(x) /\ IsInf(y) THEN NaN
    ELSE IF IsInf(x) THEN <<x[1] * (IF y[1] < 0 THEN -1 ELSE 1), 0>>
    ELSE IF IsInf(y) THEN Zero
    ELSE IF y[1] = 0 THEN <<Sign(x[1]), 0>>
    ELSE Norm(x[1] * y[2], x[2] * y[1])

FAbs(x) == IF IsOut(x) THEN x ELSE <<IAbs(x[1]), x[2]>>

\* x ** k for an integer k
RECURSIVE FPow(_, _)
FPow(x, k) ==
    IF k = 0 THEN (IF IsOut(x) THEN x ELSE One)
    ELSE IF k < 0 THEN FDiv(One, FPow(x, -k))
    ELSE FMul(x, FPow(x, k - 1))

\* x < y; every comparison with nan is false
FLess(x, y) ==
    IF IsNaN(x) \/ IsNaN(y) \/ IsOut(x) \/ IsOut(y) THEN FALSE
    ELSE IF IsInf(x) /\ IsInf(y) THEN x[1] < y[1]
    ELSE IF IsInf(x) THEN x[1] < 0
    ELSE IF IsInf(y) THEN y[1] > 0
    ELSE x[1] * y[2] < y[1] * x[2]

FMin(x, y) == IF IsNaN(x) \/ IsNaN(y) THEN NaN ELSE IF FLess(y, x) THEN y ELSE x
FMax(x, y) == IF IsNaN(x) \/ IsNaN(y) THEN NaN ELSE IF FLess(x, y) THEN y ELSE x

(* ------------------- the unit library (unyt.array) -------------------- *)

\* A unit is its dimensions (the exponents of length and time) and its
\* base_value, the scale relative to the mks unit of the same dimensions.
\* unyt's Unit.__eq__ compares exactly these two.
Unit(l, t, b) == [dims |-> <<l, t>>, base |-> b]

dimensionless == Unit(0, 0, One)
metre == Unit(1, 0, One)
centimetre == Unit(1, 0, FDiv(One, Hundred))
second == Unit(0, 1, One)

UnitMul(u, v) ==
    [dims |-> <<u.dims[1] + v.dims[1], u.dims[2] + v.dims[2]>>, base |-> FMul(u.base, v.base)]
UnitDiv(u, v) ==
    [dims |-> <<u.dims[1] - v.dims[1], u.dims[2] - v.dims[2]>>, base |-> FDiv(u.base, v.base)]
UnitPow(u, k) == [dims |-> <<u.dims[1] * k, u.dims[2] * k>>, base |-> FPow(u.base, k)]

\* the unit of the given dimensions in the mks and in the cgs unit system
MksUnit(dims) == [dims |-> dims, base |-> One]
CgsUnit(dims) == [dims |-> dims, base |-> FPow(centimetre.base, dims[1])]

NoName == "None"

\* a unyt_quantity object: id is the identity of the object
Quantity(id, value, units, name) ==
    [id |-> id, value |-> value, units |-> units, name |-> name]

NoQuantity == Quantity(0, Zero, dimensionless, NoName)

\* the target unit of a conversion method of unyt_quantity
ConversionTarget(unyt_func_name, q, u) ==
    CASE unyt_func_name \in {"to", "in_units"} -> u
      [] unyt_func_name = "in_cgs" -> CgsUnit(q.units.dims)
      [] unyt_func_name \in {"in_base", "in_mks"} -> MksUnit(q.units.dims)

\* q.to(u), q.in_units(u), q.in_cgs(), q.in_base(), q.in_mks(): a new quantity
\* (with identity id), or a UnitConversionError when the dimensions differ
QuantityConvert(unyt_func_name, q, u, id) ==
    LET target == ConversionTarget(unyt_func_name, q, u)
    IN  IF target.dims # q.units.dims
        THEN [err |-> "UnitConversionError", q |-> NoQuantity]
        ELSE [err |-> "ok",
              q |-> Quantity(id, FMul(q.value, FDiv(q.units.base, target.base)),
                             target, q.name)]

\* the operation a function name stands for, whether it comes as a method of
\* unyt_quantity / dask Array (__add__), or as a numpy function (add)
OpKind(funcname) ==
    CASE funcname \in {"__add__", "__radd__", "add"} -> "add"
      [] funcname \in {"__sub__", "__rsub__", "subtract"} -> "sub"
      [] funcname \in {"__mul__", "__rmul__", "multiply"} -> "mul"
      [] funcname \in {"__truediv__", "__rtruediv__", "true_divide"} -> "div"
      [] funcname \in {"__pow__", "power"} -> "pow"
      [] funcname \in {"__abs__", "absolute"} -> "abs"
      [] funcname = "less" -> "less"
      [] funcname = "sum" -> "sum"

Reflected(funcname) == funcname \in {"__radd__", "__rsub__", "__rmul__", "__rtruediv__"}

IsUnary(funcname) == OpKind(funcname) \in {"abs", "sum"}

(* -------------------------- values and operands ----------------------- *)

\* a plain dask array: its elements (flattened), its number of dimensions (0
\* or 1) and the type its chunks compute to
DaskArray(data, ndim, chunk) == [data |-> data, ndim |-> ndim, chunk |-> chunk]
NoDask == DaskArray(<<>>, 0, "ndarray")

\* an argument of a call: a unyt_dask_array (a reference into the memory), a
\* plain dask array, a unyt_quantity, a plain number, a plain boolean result,
\* or nothing
Operand(k, ref, num, q, dask) == [k |-> k, ref |-> ref, num |-> num, q |-> q, dask |-> dask]
ArrOp(ref) == Operand("arr", ref, Zero, NoQuantity, NoDask)
NumOp(x) == Operand("num", 0, x, NoQuantity, NoDask)
QOp(q) == Operand("q", 0, Zero, q, NoDask)
DaskOp(d) == Operand("dask", 0, Zero, NoQuantity, d)
BoolOp == Operand("bool", 0, Zero, NoQuantity, NoDask)
NoneOp == Operand("none", 0, Zero, NoQuantity, NoDask)

\* hasattr(obj, 'units'), for the values the unit library hands back or is handed
HasUnits(obj) == obj.k = "q"

\* the value and the unit of an argument of a unit library call
ValueOf(obj) == IF obj.k = "q" THEN obj.q.value ELSE obj.num
UnitsOf(obj) == IF obj.k = "q" THEN obj.q.units ELSE dimensionless

\* ufunc(*unyt_inputs): the unit library's result of an operation on
\* quantities and plain numbers, a new object with identity id. Addition,
\* subtraction and comparison need equal dimensions; a power needs an exponent
\* without units or with dimensionless units.
QuantityApply(funcname, unyt_inputs, id) ==
    LET kind == OpKind(funcname)
        a == IF Reflected(funcname) THEN unyt_inputs[2] ELSE unyt_inputs[1]
        b == IF IsUnary(funcname) THEN a
             ELSE IF Reflected(funcname) THEN unyt_inputs[1] ELSE unyt_inputs[2]
        ua == UnitsOf(a)
        ub == UnitsOf(b)
        \* b's value in a's unit, as the library converts it before it adds
        bv == FMul(ValueOf(b), FDiv(ub.base, ua.base))
        Ok(value, units) ==
            [err |-> "ok", res |-> QOp(Quantity(id, value, units, NoName))]
        Fail == [err |-> "UnitOperationError", res |-> NoneOp]
    IN  CASE kind = "abs" -> Ok(FAbs(ValueOf(a)), ua)
          [] kind = "sum" -> Ok(ValueOf(a), ua)
          [] kind = "add" -> IF ua.dims # ub.dims THEN Fail ELSE Ok(FAdd(ValueOf(a), bv), ua)
          [] kind = "sub" -> IF ua.dims # ub.dims THEN Fail ELSE Ok(FSub(ValueOf(a), bv), ua)
          [] kind = "less" -> IF ua.dims # ub.dims THEN Fail
                              ELSE [err |-> "ok", res |-> BoolOp]
          [] kind = "mul" -> Ok(FMul(ValueOf(a), ValueOf(b)), UnitMul(ua, ub))
          [] kind = "div" -> Ok(FDiv(ValueOf(a), ValueOf(b)), UnitDiv(ua, ub))
          [] kind = "pow" -> IF ub # dimensionless THEN Fail
                             ELSE Ok(FPow(ValueOf(a), ValueOf(b)[1]), UnitPow(ua, ValueOf(b)[1]))

(* ------------------------ the dask array engine ----------------------- *)

\* element i of an argument of an elementwise engine call, with broadcasting
Elem(x, i) ==
    IF x.k = "num" THEN x.num
    ELSE IF Len(x.dask.data) = 1 THEN x.dask.data[1] ELSE x.dask.data[i]

SizeOf(x) == IF x.k = "num" THEN 1 ELSE Len(x.dask.data)
NdimOf(x) == IF x.k = "num" THEN 0 ELSE x.dask.ndim
IMax(i, j) == IF i > j THEN i ELSE j

ChunkOf(ndim) == IF ndim = 0 THEN "float64" ELSE "ndarray"

FBinary(kind, x, y) ==
    CASE kind = "add" -> FAdd(x, y)
      [] kind = "sub" -> FSub(x, y)
      [] kind = "mul" -> FMul(x, y)
      [] kind = "div" -> FDiv(x, y)
      [] kind = "pow" -> FPow(x, y[1])

\* The plain dask array an engine function builds from plain arguments (dask
\* arrays and numbers): Array.__add__ and the other operator methods, the
\* numpy functions the hooks hand on. A comparison gives a boolean array,
\* whose elements the model does not keep.
DaskApply(funcname, args) ==
    LET kind == OpKind(funcname)
        a == IF Reflected(funcname) THEN args[2] ELSE args[1]
        b == IF IsUnary(funcname) THEN a
             ELSE IF Reflected(funcname) THEN args[1] ELSE args[2]
        n == IMax(SizeOf(a), SizeOf(b))
        nd == IMax(NdimOf(a), NdimOf(b))
    IN  CASE kind = "abs" -> DaskArray([i \in 1..n |-> FAbs(Elem(a, i))], nd, ChunkOf(nd))
          [] kind = "sum" ->
                DaskArray(<<IF n = 1 THEN Elem(a, 1) ELSE FAdd(Elem(a, 1), Elem(a, 2))>>,
                          0, "float64")
          [] kind = "less" -> DaskArray([i \in 1..n |-> Zero], nd, ChunkOf(nd))
          [] OTHER ->
                DaskArray([i \in 1..n |-> FBinary(kind, Elem(a, i), Elem(b, i))], nd, ChunkOf(nd))

(* ----------------------- unyt/dask_array.py --------------------------- *)

_use_simple_decorator ==
    {"min", "max", "sum", "mean", "std", "cumsum", "squeeze", "rechunk", "clip",
     "view", "swapaxes", "round", "copy", "__deepcopy__", "repeat", "astype",
     "reshape", "topk"}

_unyt_funcs_to_track == {"to", "in_units", "in_cgs", "in_base", "in_mks"}

\* The objects of one call: the unyt_dask_array objects that exist (arrs), the
\* identity the next unyt_quantity object gets (nq), the number of engine
\* operations the call has invoked (eng) and the exception raised, if any
Memory(arrs, nq, eng, err) == [arrs |-> arrs, nq |-> nq, eng |-> eng, err |-> err]

\* what a function returns: the memory after it and the returned value
Return(mem, out) == [mem |-> mem, out |-> out]
Raise(mem, err) == [mem |-> [mem EXCEPT !.err = err], out |-> NoneOp]

\* unyt_dask_array.__new__: the array with a new sidecar quantity 1.0 * units
unyt_dask_array(mem, dask, units, unyt_name) ==
    LET q == Quantity(mem.nq, One, units, unyt_name)
        obj == [dask |-> dask, units |-> q.units, _unyt_quantity |-> q,
                unyt_name |-> q.name]
    IN  Return([mem EXCEPT !.arrs = Append(@, obj), !.nq = @ + 1],
               ArrOp(Len(mem.arrs) + 1))

\* unyt_from_dask: __reduce__ gives the arguments of the plain dask array, and
\* the constructor builds the unit-bearing array from them
unyt_from_dask(mem, dask_array, units, unyt_name) ==
    unyt_dask_array(mem, dask_array, units, unyt_name)

\* _set_unit_state as it would be if it left the units attribute alone
_set_unit_state_partial(mem, self, units, new_unyt_quantity, unyt_name) ==
    [mem EXCEPT !.arrs[self] = [@ EXCEPT !._unyt_quantity = new_unyt_quantity,
                                         !.unyt_name = unyt_name]]

\* unyt_dask_array._set_unit_state, on the object self
_set_unit_state(mem, self, units, new_unyt_quantity, unyt_name) ==
    [mem EXCEPT !.arrs[self] = [@ EXCEPT !.units = units,
                                         !._unyt_quantity = new_unyt_quantity,
                                         !.unyt_name = unyt_name]]

_create_with_quantity(mem, dask_array, new_unyt_quantity) ==
    LET out == unyt_from_dask(mem, dask_array, dimensionless, NoName)
        units == new_unyt_quantity.units
        unyt_name == new_unyt_quantity.name
    IN  Return(_set_unit_state(out.mem, out.out.ref, units, new_unyt_quantity, unyt_name),
               out.out)

\* unyt_dask_array.to_dask: a plain dask array of the same graph
to_dask(mem, self) == mem.arrs[self].dask

_extract_unyt(mem, obj) ==
    IF obj.k = "arr" THEN QOp(mem.arrs[obj.ref]._unyt_quantity) ELSE obj

_extract_dask(mem, obj) ==
    IF obj.k = "arr" THEN DaskOp(to_dask(mem, obj.ref)) ELSE obj

_extract_unyt_val(obj) ==
    IF obj.k = "q" THEN NumOp(obj.q.value) ELSE obj

\* round half to even, as numpy rounds
FRound(x) ==
    IF ~IsFinite(x) THEN x
    ELSE LET fl == x[1] \div x[2]
             r2 == 2 * (x[1] % x[2])
         IN  IF r2 < x[2] THEN <<fl, 1>>
             ELSE IF r2 > x[2] THEN <<fl + 1, 1>>
             ELSE IF fl % 2 = 0 THEN <<fl, 1>> ELSE <<fl + 1, 1>>

\* The plain dask array a method of the allow-list builds from the array d.
\* The methods that take arguments are called as clip(0, 1), round(),
\* repeat(1), topk(1), astype(float), swapaxes(0, 0), reshape(shape of d).
DaskMethod(name, d) ==
    LET n == Len(d.data)
        a == d.data[1]
        b == d.data[n]
        Reduced(x) == DaskArray(<<x>>, 0, "float64")
        Each(F(_)) == DaskArray([i \in 1..n |-> F(d.data[i])], d.ndim, ChunkOf(d.ndim))
        Clip(x) == FMax(Zero, FMin(x, One))
    IN  CASE name = "min" -> Reduced(FMin(a, b))
          [] name = "max" -> Reduced(FMax(a, b))
          [] name = "sum" -> Reduced(IF n = 1 THEN a ELSE FAdd(a, b))
          [] name = "mean" -> Reduced(IF n = 1 THEN a ELSE FDiv(FAdd(a, b), Two))
          [] name = "std" -> Reduced(FDiv(FAbs(FSub(a, b)), Two))
          [] name = "cumsum" ->
                DaskArray(IF n = 1 THEN <<a>> ELSE <<a, FAdd(a, b)>>, 1, "ndarray")
          [] name = "clip" -> Each(Clip)
          [] name = "round" -> Each(FRound)
          [] name = "repeat" -> DaskArray(d.data, 1, "ndarray")
          [] name = "topk" -> DaskArray(<<FMax(a, b)>>, 1, "ndarray")
          [] OTHER -> d

\* _simple_dask_decorator as it would be if it wrapped the result without
\* handing on the sidecar of the current array
_simple_dask_decorator_plain(mem, dask_func, current_unyt_dask) ==
    LET da == DaskMethod(dask_func, mem.arrs[current_unyt_dask].dask)
    IN  unyt_from_dask([mem EXCEPT !.eng = @ + 1], da, dimensionless, NoName)

\* the wrapper _simple_dask_decorator returns, called
_simple_dask_decorator(mem, dask_func, current_unyt_dask) ==
    LET da == DaskMethod(dask_func, mem.arrs[current_unyt_dask].dask)
    IN  _create_with_quantity([mem EXCEPT !.eng = @ + 1], da,
                              mem.arrs[current_unyt_dask]._unyt_quantity)

RECURSIVE _special_dec(_, _, _)

\* the wrapper _track_conversion returns, called with the target unit u
\* (which in_cgs, in_base and in_mks do not read)
_track_conversion(mem, unyt_func_name, current_unyt_dask, u) ==
    LET init_val == mem.arrs[current_unyt_dask]._unyt_quantity.value
        \* the_func(*args, **kwargs), and what follows it
        Converted(called) ==
            LET new_unyt_quantity == called.q
                factor == FDiv(new_unyt_quantity.value, init_val)
                units == new_unyt_quantity.units
                \* unyt_from_dask(current_unyt_dask * factor, units)
                Wrapped(product) ==
                    IF product.mem.err # "ok" THEN product
                    ELSE unyt_from_dask(product.mem,
                                        product.mem.arrs[product.out.ref].dask,
                                        units, NoName)
            IN  IF called.err # "ok" THEN Raise(mem, called.err)
                ELSE Wrapped(_special_dec([mem EXCEPT !.nq = @ + 1], "__mul__",
                                          <<ArrOp(current_unyt_dask), NumOp(factor)>>))
    IN  Converted(QuantityConvert(unyt_func_name,
                                  mem.arrs[current_unyt_dask]._unyt_quantity, u, mem.nq))

\* unyt_dask_array.__getattribute__(name), and the call of what it returns
__getattribute__(mem, self, name, u) ==
    IF name \in _unyt_funcs_to_track THEN _track_conversion(mem, name, self, u)
    ELSE IF name \in _use_simple_decorator THEN _simple_dask_decorator(mem, name, self)
    ELSE Return(mem, NoneOp)

\* input[i].to(units) in _sanitize_unit_args: input[i] is a unyt_dask_array
\* or a unyt_quantity
OperandTo(mem, obj, units) ==
    IF obj.k = "arr" THEN __getattribute__(mem, obj.ref, "to", units)
    ELSE LET Converted(called) ==
                 IF called.err # "ok" THEN Raise(mem, called.err)
                 ELSE Return([mem EXCEPT !.nq = @ + 1], QOp(called.q))
         IN  Converted(QuantityConvert("to", obj.q, units, mem.nq))

Sanitized(mem, input, unyt_inputs) ==
    [mem |-> mem, input |-> input, unyt_inputs |-> unyt_inputs]

\* _sanitize_unit_args as it would be without the comparison of the dimensions
_sanitize_unit_args_nodims(mem, input) ==
    LET unyt_inputs == [i \in DOMAIN input |-> _extract_unyt(mem, input[i])]
        ui_0 == unyt_inputs[1]
        ui_1 == unyt_inputs[2]
    IN  IF /\ Len(unyt_inputs) > 1
           /\ HasUnits(ui_0)
           /\ HasUnits(ui_1)
           /\ ui_0.q.units # ui_1.q.units
        THEN LET k == IF FLess(ui_0.q.units.base, ui_1.q.units.base) THEN 1 ELSE 2
                 target == IF k = 1 THEN ui_1.q.units ELSE ui_0.q.units
                 Replaced(converted) ==
                     LET input2 == [input EXCEPT ![k] = converted.out]
                     IN  IF converted.mem.err # "ok"
                         THEN Sanitized(converted.mem, input, unyt_inputs)
                         ELSE Sanitized(converted.mem, input2,
                                        [i \in DOMAIN input2 |->
                                            _extract_unyt(converted.mem, input2[i])])
             IN  Replaced(OperandTo(mem, input[k], target))
        ELSE Sanitized(mem, input, unyt_inputs)

\* _sanitize_unit_args as it would be if it converted the operand itself
\* instead of replacing the entry of the operand list
_sanitize_unit_args_inplace(mem, input) ==
    LET unyt_inputs == [i \in DOMAIN input |-> _extract_unyt(mem, input[i])]
        ui_0 == unyt_inputs[1]
        ui_1 == unyt_inputs[2]
    IN  IF /\ Len(unyt_inputs) > 1
           /\ HasUnits(ui_0)
           /\ HasUnits(ui_1)
           /\ ui_0.q.units # ui_1.q.units
           /\ ui_0.q.units.dims = ui_1.q.units.dims
        THEN LET k == IF FLess(ui_0.q.units.base, ui_1.q.units.base) THEN 1 ELSE 2
                 target == IF k = 1 THEN ui_1.q.units ELSE ui_0.q.units
                 Replaced(converted) ==
                     LET mem2 == IF input[k].k = "arr"
                                 THEN [converted.mem EXCEPT !.arrs[input[k].ref] =
                                           converted.mem.arrs[converted.out.ref]]
                                 ELSE converted.mem
                         input2 == IF input[k].k = "arr" THEN input
                                   ELSE [input EXCEPT ![k] = converted.out]
                     IN  Sanitized(mem2, input2,
                                   [i \in DOMAIN input2 |-> _extract_unyt(mem2, input2[i])])
             IN  Replaced(OperandTo(mem, input[k], target))
        ELSE Sanitized(mem, input, unyt_inputs)

_sanitize_unit_args(mem, input) ==
    LET unyt_inputs == [i \in DOMAIN input |-> _extract_unyt(mem, input[i])]
        ui_0 == unyt_inputs[1]
        ui_1 == unyt_inputs[2]
    IN  IF /\ Len(unyt_inputs) > 1
           /\ HasUnits(ui_0)
           /\ HasUnits(ui_1)
           /\ ui_0.q.units # ui_1.q.units
           /\ ui_0.q.units.dims = ui_1.q.units.dims
        THEN LET k == IF FLess(ui_0.q.units.base, ui_1.q.units.base) THEN 1 ELSE 2
                 target == IF k = 1 THEN ui_1.q.units ELSE ui_0.q.units
                 \* input[i] = input[i].to(units), and the sidecars again
                 Replaced(converted) ==
                     LET input2 == [input EXCEPT ![k] = converted.out]
                     IN  Sanitized(converted.mem, input2,
                                   [i \in DOMAIN input2 |->
                                       _extract_unyt(converted.mem, input2[i])])
             IN  Replaced(OperandTo(mem, input[k], target))
        ELSE Sanitized(mem, input, unyt_inputs)

Prepared(mem, input, unyt_result) ==
    [mem |-> mem, input |-> input, unyt_result |-> unyt_result]

_prep_ufunc(mem, ufunc, input, extract_dask) ==
    LET \* what follows input, unyt_inputs = _sanitize_unit_args(*input)
        Rest(sanitized) ==
            LET input1 == IF extract_dask
                          THEN [i \in DOMAIN sanitized.input |->
                                    _extract_dask(sanitized.mem, sanitized.input[i])]
                          ELSE sanitized.input
                input2 == [i \in DOMAIN input1 |-> _extract_unyt_val(input1[i])]
                \* what follows unyt_result = ufunc(*unyt_inputs)
                Extracted(applied) ==
                    IF applied.err # "ok"
                    THEN Prepared([sanitized.mem EXCEPT !.err = applied.err], <<>>, NoneOp)
                    ELSE Prepared([sanitized.mem EXCEPT !.nq = @ + 1], input2, applied.res)
            IN  IF sanitized.mem.err # "ok" THEN Prepared(sanitized.mem, <<>>, NoneOp)
                ELSE Extracted(QuantityApply(ufunc, sanitized.unyt_inputs, sanitized.mem.nq))
    IN  Rest(_sanitize_unit_args(mem, input))

\* the wrapper _post_ufunc returns, called: the engine's function, on the
\* arguments it is given, and the result re-wrapped when it has units
_post_ufunc(mem, dask_superfunk, unyt_result, args) ==
    LET mem1 == [mem EXCEPT !.eng = @ + 1]
        Wrapped(dask_result) ==
            IF HasUnits(unyt_result)
            THEN _create_with_quantity(mem1, dask_result, unyt_result.q)
            ELSE Return(mem1, DaskOp(dask_result))
    IN  Wrapped(DaskApply(dask_superfunk,
                          [i \in DOMAIN args |-> _extract_dask(mem, args[i])]))

\* the wrapper _special_dec returns for the method funcname, called with args
_special_dec(mem, funcname, args) ==
    LET \* what follows newargs, unyt_result = _prep_ufunc(funcname, *args)
        Rest(prep) ==
            LET newargs == prep.input
                unyt_result == prep.unyt_result
                mem1 == [prep.mem EXCEPT !.eng = @ + 1]
                Wrapped(daskresult) ==
                    IF HasUnits(unyt_result)
                    THEN _create_with_quantity(mem1, daskresult, unyt_result.q)
                    ELSE Return(mem1, DaskOp(daskresult))
            IN  IF prep.mem.err # "ok" THEN Return(prep.mem, NoneOp)
                ELSE Wrapped(DaskApply(funcname, newargs))
    IN  Rest(_prep_ufunc(mem, funcname, args, TRUE))

_elemwise(mem, ufunc, args) ==
    LET Rest(prep) ==
            IF prep.mem.err # "ok" THEN Return(prep.mem, NoneOp)
            ELSE _post_ufunc(prep.mem, ufunc, prep.unyt_result, prep.input)
    IN  Rest(_prep_ufunc(mem, ufunc, args, FALSE))

__array_ufunc__(mem, numpy_ufunc, inputs) ==
    LET Rest(prep) ==
            IF prep.mem.err # "ok" THEN Return(prep.mem, NoneOp)
            ELSE _post_ufunc(prep.mem, numpy_ufunc, prep.unyt_result, prep.input)
    IN  Rest(_prep_ufunc(mem, numpy_ufunc, inputs, TRUE))

__array_function__(mem, func, args) ==
    LET Rest(prep) ==
            IF prep.mem.err # "ok" THEN Return(prep.mem, NoneOp)
            ELSE _post_ufunc(prep.mem, func, prep.unyt_result, prep.input)
    IN  Rest(_prep_ufunc(mem, func, args, TRUE))

\* dask's finalize, on the chunks of the computed array d: the in-memory
\* result, an ndarray or a numpy scalar
finalize(d) == [type |-> d.chunk, ndim |-> d.ndim, data |-> d.data]

\* _finalize_unyt as it would be if it always built a unyt_array
_finalize_unyt_array(results, unit_name) ==
    LET result == finalize(results)
    IN  [cls |-> "unyt_array", data |-> result.data, ndim |-> result.ndim,
         units |-> unit_name]

_finalize_unyt(results, unit_name) ==
    LET result == finalize(results)
    IN  IF result.type = "ndarray"
        THEN [cls |-> "unyt_array", data |-> result.data, ndim |-> result.ndim,
              units |-> unit_name]
        ELSE [cls |-> "unyt_quantity", data |-> result.data, ndim |-> result.ndim,
              units |-> unit_name]

\* unyt_dask_array.__dask_postcompute__: the finalizer's extra argument
__dask_postcompute__(mem, self) == mem.arrs[self].units

NoFinal == [cls |-> "none", data |-> <<>>, ndim |-> 0, units |-> dimensionless]

(* --------------------------- the state machine ------------------------ *)

VARIABLES
    heap,   \* the unyt_dask_array objects the caller holds, in order of creation
    last    \* the latest call: what was called, on what, and what came of it

vars == <<heap, last>>

\* the inputs the calls are drawn from
Three == <<3, 1>>
WrapUnits == {metre, centimetre, second}
\* the arrays that are wrapped: a chunked array of [1, 2] and a 0-dimensional
\* array of 3, whose one chunk is a 0-dimensional ndarray
WrapInputs ==
    {[dask |-> DaskArray(<<One, Two>>, 1, "ndarray"), units |-> metre, name |-> NoName],
     [dask |-> DaskArray(<<One, Two>>, 1, "ndarray"), units |-> centimetre, name |-> "dist"],
     [dask |-> DaskArray(<<Three>>, 0, "ndarray"), units |-> second, name |-> NoName]}
Scalars == {Zero, Two}
SpecialNames ==
    {"__abs__", "__pow__", "__mul__", "__rmul__", "__truediv__", "__rtruediv__",
     "__add__", "__radd__", "__sub__", "__rsub__"}
UfuncNames == {"add", "multiply", "power", "absolute", "less"}
ElemwiseNames == {"subtract", "true_divide"}
FunctionNames == {"sum"}

Refs == 1..Len(heap)

\* The second operands a binary operation is called with: another array for
\* an addition, a subtraction or a comparison; an array or a plain number for
\* a product or a quotient; a plain number or an array that carries a unit
\* other than dimensionless for a power.
Others(funcname) ==
    CASE OpKind(funcname) \in {"add", "sub", "less"} -> {ArrOp(j) : j \in Refs}
      [] OpKind(funcname) \in {"mul", "div"} ->
            {ArrOp(j) : j \in Refs} \cup {NumOp(x) : x \in Scalars}
      [] OpKind(funcname) = "pow" ->
            {ArrOp(j) : j \in {r \in Refs : heap[r]._unyt_quantity.units # dimensionless}}
                \cup {NumOp(x) : x \in Scalars}

ArgsOf(funcname, i) ==
    IF IsUnary(funcname) THEN {<<ArrOp(i)>>}
    ELSE {<<ArrOp(i), o>> : o \in Others(funcname)}

\* what the record of a call keeps of an argument or of a result
Kept(obj) == [k |-> obj.k, ref |-> obj.ref, num |-> obj.num]

Call(op, name, args, unit) == [op |-> op, name |-> name, args |-> args, unit |-> unit]

NoCall ==
    [op |-> "none", name |-> "", args |-> <<>>, unit |-> dimensionless, err |-> "ok",
     eng |-> 0, made |-> 0, out |-> Kept(NoneOp), fin |-> NoFinal]

\* the memory a call starts in: every new quantity is a new object
StartCall == Memory(heap, Len(heap) + 1, 0, "ok")

FloatsOfArray(a) ==
    {a.dask.data[i] : i \in DOMAIN a.dask.data}
        \cup {a._unyt_quantity.value, a._unyt_quantity.units.base, a.units.base}

\* every number of the memory is within the modelled range
InRange(mem) == \A i \in DOMAIN mem.arrs : OutOfRange \notin FloatsOfArray(mem.arrs[i])

\* Two sidecars are the same object when their identities are equal; the
\* identity kept in a state is the position of the first array that holds the
\* object, so that states do not differ by the names of the objects.
Canonical(arrs) ==
    [i \in DOMAIN arrs |->
        [arrs[i] EXCEPT !._unyt_quantity.id =
            CHOOSE j \in 1..i :
                /\ arrs[j]._unyt_quantity.id = arrs[i]._unyt_quantity.id
                /\ \A k \in 1..(j - 1) : arrs[k]._unyt_quantity.id # arrs[i]._unyt_quantity.id]]

\* The call returns: the caller keeps the arrays it held and the array the
\* call returned; the arrays the call made on the way are garbage.
Finish(call, r) ==
    LET kept == SubSeq(r.mem.arrs, 1, Len(heap))
        returned == r.mem.err = "ok" /\ r.out.k = "arr"
    IN  /\ InRange(r.mem)
        /\ heap' = Canonical(IF returned THEN Append(kept, r.mem.arrs[r.out.ref]) ELSE kept)
        /\ last' = [op |-> call.op, name |-> call.name,
                    args |-> [i \in DOMAIN call.args |-> Kept(call.args[i])],
                    unit |-> call.unit, err |-> r.mem.err, eng |-> r.mem.eng,
                    made |-> Len(r.mem.arrs) - Len(heap),
                    out |-> IF returned THEN Kept(ArrOp(Len(heap) + 1))
                            ELSE IF r.mem.err = "ok" THEN Kept(r.out) ELSE Kept(NoneOp),
                    fin |-> NoFinal]

Init ==
    /\ heap = <<>>
    /\ last = NoCall

\* no call is under way: the caller has taken the result of the latest one
Idle == last.op = "none"

\* unyt_from_dask(dask_array, units, unyt_name=unyt_name)
Wrap(max) ==
    /\ Idle
    /\ Len(heap) < max
    /\ \E w \in WrapInputs :
          Finish(Call("wrap", "unyt_from_dask", <<DaskOp(w.dask)>>, w.units),
                 unyt_from_dask(StartCall, w.dask, w.units, w.name))

\* abs(x), x ** y, x * y, y * x, x / y, y / x, x + y, y + x, x - y, y - x
Special(max) ==
    /\ Idle
    /\ Len(heap) < max
    /\ \E f \in SpecialNames, i \in Refs : \E args \in ArgsOf(f, i) :
          Finish(Call("special", f, args, dimensionless), _special_dec(StartCall, f, args))

\* a numpy ufunc called on unit-bearing arrays: numpy hands it to __array_ufunc__
ArrayUfunc(max) ==
    /\ Idle
    /\ Len(heap) < max
    /\ \E f \in UfuncNames, i \in Refs : \E args \in ArgsOf(f, i) :
          Finish(Call("ufunc", f, args, dimensionless), __array_ufunc__(StartCall, f, args))

\* the engine's elementwise entry point, called with a ufunc
Elemwise(max) ==
    /\ Idle
    /\ Len(heap) < max
    /\ \E f \in ElemwiseNames, i \in Refs : \E args \in ArgsOf(f, i) :
          Finish(Call("elemwise", f, args, dimensionless), _elemwise(StartCall, f, args))

\* a numpy function called on a unit-bearing array: numpy hands it to
\* __array_function__
ArrayFunction(max) ==
    /\ Idle
    /\ Len(heap) < max
    /\ \E f \in FunctionNames, i \in Refs : \E args \in ArgsOf(f, i) :
          Finish(Call("function", f, args, dimensionless),
                 __array_function__(StartCall, f, args))

\* x.min(), x.copy(), x.reshape(...), ...: a method of the allow-list
Simple(max) ==
    /\ Idle
    /\ Len(heap) < max
    /\ \E f \in _use_simple_decorator, i \in Refs :
          Finish(Call("simple", f, <<ArrOp(i)>>, dimensionless),
                 __getattribute__(StartCall, i, f, dimensionless))

\* x.to(u), x.in_units(u), x.in_cgs(), x.in_base(), x.in_mks()
Convert(max) ==
    /\ Idle
    /\ Len(heap) < max
    /\ \E f \in _unyt_funcs_to_track, i \in Refs :
          \E u \in IF f \in {"to", "in_units"} THEN WrapUnits ELSE {dimensionless} :
              Finish(Call("convert", f, <<ArrOp(i)>>, u),
                     __getattribute__(StartCall, i, f, u))

\* x.compute(): the engine computes the chunks and calls the finalizer that
\* __dask_postcompute__ names
Compute ==
    \E i \in Refs :
        /\ Idle
        /\ heap' = heap
        /\ last' = [op |-> "compute", name |-> "compute", args |-> <<Kept(ArrOp(i))>>,
                    unit |-> dimensionless, err |-> "ok", eng |-> 0, made |-> 0,
                    out |-> Kept(NoneOp),
                    fin |-> _finalize_unyt(heap[i].dask, __dask_postcompute__(StartCall, i))]

\* the caller takes the result of the latest call and goes on
Proceed ==
    /\ ~Idle
    /\ last' = NoCall
    /\ UNCHANGED heap

Next ==
    \/ Proceed
    \/ Wrap(MaxArrays)
    \/ Special(MaxArrays)
    \/ ArrayUfunc(MaxArrays)
    \/ Elemwise(MaxArrays)
    \/ ArrayFunction(MaxArrays)
    \/ Simple(MaxArrays)
    \/ Convert(MaxArrays)
    \/ Compute

Spec == Init /\ [][Next]_vars

\* longer chains of operators: arrays are wrapped and combined by operators only
NextDeep ==
    \/ Proceed
    \/ Wrap(MaxDeep)
    \/ Special(MaxDeep)

SpecDeep == Init /\ [][NextDeep]_vars

(* ------------------------------ properties ---------------------------- *)

\* the arrays the latest call was made on, and the array it returned
Returned == last.err = "ok" /\ last.out.k = "arr"
Result == heap[last.out.ref]
Self == heap[last.args[1].ref]
Other == heap[last.args[2].ref]

\* both operands of the latest call are unit-bearing arrays
OnTwoArrays ==
    /\ Len(last.args) = 2
    /\ last.args[1].k = "arr"
    /\ last.args[2].k = "arr"

\* the factor that takes a value in unit u to the same quantity in unit v
ConversionFactor(u, v) == FDiv(u.base, v.base)

\* the elements of the array a, expressed in the unit v
InUnit(a, v) ==
    [i \in DOMAIN a.dask.data |-> FMul(a.dask.data[i], ConversionFactor(a.units, v))]

\* the unit the latest conversion was asked for
AskedUnit ==
    CASE last.name \in {"to", "in_units"} -> last.unit
      [] last.name = "in_cgs" -> CgsUnit(Self.units.dims)
      [] OTHER -> MksUnit(Self.units.dims)

\* C1: a conversion of a unit-bearing array x to a unit of x's dimensions
\* returns a new unit-bearing array whose unit is the unit asked for and whose
\* values are x's values times the conversion factor between the two units.
C1_ConversionScalesValues ==
    (last.op = "convert" /\ AskedUnit.dims = Self.units.dims) =>
        /\ Returned
        /\ Result.units = AskedUnit
        /\ Result.dask.data = InUnit(Self, AskedUnit)

\* the unit of the operand with the larger base value
LargerUnit ==
    IF FLess(Self.units.base, Other.units.base) THEN Other.units ELSE Self.units

BroadcastSum(x, y) ==
    [i \in 1..IMax(Len(x), Len(y)) |->
        FAdd(IF Len(x) = 1 THEN x[1] ELSE x[i], IF Len(y) = 1 THEN y[1] ELSE y[i])]

\* C2: a + b, for unit-bearing arrays of unequal units of the same dimensions,
\* in either order, has the unit of the operand with the larger base value,
\* and its values are the sum of the operands' values, both in that unit.
C2_AdditionInLargerUnit ==
    (/\ last.op = "special"
     /\ last.name \in {"__add__", "__radd__"}
     /\ OnTwoArrays
     /\ Self.units # Other.units
     /\ Self.units.dims = Other.units.dims) =>
        /\ Returned
        /\ Result.units = LargerUnit
        /\ Result.dask.data = BroadcastSum(InUnit(Self, LargerUnit), InUnit(Other, LargerUnit))

\* C3: the array a method of the allow-list returns carries the unit and the
\* unit name of the array the method was called on.
C3_SimpleKeepsUnit ==
    last.op = "simple" =>
        /\ Returned
        /\ Result.units = Self.units
        /\ Result.unyt_name = Self.unyt_name

C3_Witness ==
    /\ last.op = "simple"
    /\ last.name = "reshape"
    /\ Returned
    /\ Self.units = centimetre
    /\ Self.unyt_name = "dist"

\* the computed value of the array the latest compute() was called on
Computed == finalize(Self.dask)

C5_DimensionMismatchFailsFirst ==
    (/\ last.op \in {"special", "ufunc", "elemwise"}
     /\ OpKind(last.name) \in {"add", "sub"}
     /\ OnTwoArrays
     /\ Self.units.dims # Other.units.dims) =>
        /\ last.err = "UnitOperationError"
        /\ last.eng = 0
        /\ last.made = 0
        /\ last.out.k = "none"

C5_Witness ==
    /\ last.op = "special"
    /\ last.name = "__sub__"
    /\ OnTwoArrays
    /\ Self.units = metre
    /\ Other.units = second
    /\ last.err = "UnitOperationError"

UnitState(a) == <<a.units, a.unyt_name, a._unyt_quantity>>

\* C6: no call, whether it returns or raises, changes the units, the unit name
\* or the sidecar of an array that existed before it.
C6_OperandsUnchanged ==
    [][\A i \in 1..Len(heap) :
          /\ i <= Len(heap')
          /\ UnitState(heap'[i]) = UnitState(heap[i])]_vars

\* an addition has reconciled operands of unequal units, and a call has failed
C6_Witness ==
    /\ last.op = "special"
    /\ last.name = "__add__"
    /\ OnTwoArrays
    /\ Returned
    /\ Self.units = centimetre
    /\ Other.units = metre
    /\ Self._unyt_quantity.value = One

\* C7: the sidecar quantity of every unit-bearing array has the magnitude 1.0.
C7_SidecarMagnitudeOne ==
    \A i \in DOMAIN heap : heap[i]._unyt_quantity.value = One

\* C8: a call of the elementwise hook, of an array-function hook or of an
\* operator that fails has not invoked the engine.
C8_FailureBeforeEngine ==
    (last.op \in {"special", "ufunc", "elemwise", "function"} /\ last.err # "ok") =>
        last.eng = 0

\* C9: no two unit-bearing arrays hold the same sidecar object.
C9_SidecarNotShared ==
    \A i, j \in DOMAIN heap :
        i # j => heap[i]._unyt_quantity.id # heap[j]._unyt_quantity.id

\* C10: the units and the unyt_name of every unit-bearing array are the unit
\* and the name of its sidecar quantity.
C10_UnitStateInSync ==
    \A i \in DOMAIN heap :
        /\ heap[i].units = heap[i]._unyt_quantity.units
        /\ heap[i].unyt_name = heap[i]._unyt_quantity.name

\* an array made by _create_with_quantity carries a unit no array was wrapped in
C10_Witness ==
    /\ last.op = "special"
    /\ last.name = "__mul__"
    /\ Returned
    /\ Result.units = UnitMul(metre, second)
    /\ Result._unyt_quantity.units = UnitMul(metre, second)

=============================================================================
